---------------------------- MODULE Spec2Model ----------------------------
(***************************************************************************)
(* A model of m6.py, the Mark Six analyzer: the two combination           *)
(* generators (generate_weighted_combinations, lines 52-67, and           *)
(* generate_banker_combinations, lines 69-87) and the Streamlit session   *)
(* layer that calls them (lines 100-169).                                 *)
(*                                                                         *)
(* Spec        one call of a generator on arbitrary arguments, stepped    *)
(*             through its loop: guard, random.choices, dedup/emit,       *)
(*             return or raise.                                            *)
(* SessionSpec the button handlers of the page, each handler one action,  *)
(*             acting on st.session_state.                                 *)
(*                                                                         *)
(* The numeric literals of the source (k=20, k=15, 5 combinations, 6 and  *)
(* 7 numbers per combination, at most 5 and 6 bankers) are far beyond     *)
(* what can be enumerated, so the model keeps the code and scales the     *)
(* numbers: each is a named bound below, with the literal it stands for.  *)
(***************************************************************************)
EXTENDS Integers, Sequences, FiniteSets, TLC

(***************************************************************************)
(* Bounds.                                                                 *)
(***************************************************************************)
\* Ball numbers are 1..MaxNumber (the site draws 1..49).
MaxNumber == 3
\* A number's historical count is 0..MaxCount.
MaxCount == 1
\* generate_*_combinations is called with num_combinations in 0..MaxBatch.
MaxBatch == 2
\* The oversample size of the weighted mode (k=20, line 61).
WeightedK == 3
\* The oversample size of the banker mode (k=15, line 79).
BankerK == 2
\* The session layer's literals: 5 combinations a call (lines 110-168),
\* 6 and 7 numbers a combination (lines 110, 114, 133, 147), at most 5 and
\* 6 bankers (lines 128, 142).
SessionBatch == 2
SmallCombo == 2
LargeCombo == 3
SmallBankerMax == 1
LargeBankerMax == 2

VARIABLES
    number_counts,      \* the frequency table: a function key -> count
    fn,                 \* which generator is running: "weighted" | "banker"
    bankers,            \* the bankers argument (a list)
    num_combinations,   \* the num_combinations argument
    num_per_combo,      \* the num_per_combo argument
    pc,                 \* "call" | "loop" | "picked" | "returned" | "raised" | "idle"
    iter,               \* completed iterations of the for loop
    potential_picks,    \* the oversample drawn in the current iteration
    combinations,       \* the local list combinations (the return value)
    exc,                \* the exception that ended the call, or "none"
    draws,              \* how many random.choices calls returned
    entered,            \* whether the call passed its initial guard
    session,            \* st.session_state: combinations and last_action
    last_call,          \* the generator call the latest handler made
    stored_by,          \* the generator call whose result session holds
    outcome             \* which handler ran last, and how it ended

vars == <<number_counts, fn, bankers, num_combinations, num_per_combo, pc,
          iter, potential_picks, combinations, exc, draws, entered,
          session, last_call, stored_by, outcome>>

coreVars == <<fn, bankers, num_combinations, num_per_combo, pc, iter,
              potential_picks, combinations, exc, draws, entered>>

sessionVars == <<session, last_call, stored_by, outcome>>

(***************************************************************************)
(* Python's list and dict operations, as the code uses them.               *)
(***************************************************************************)
Range(s) == {s[i] : i \in DOMAIN s}

RECURSIVE AscendingSeq(_)
AscendingSeq(S) ==
    IF S = {} THEN <<>>
    ELSE LET m == CHOOSE x \in S : \A y \in S : x <= y
         IN  <<m>> \o AscendingSeq(S \ {m})

\* list(number_counts.keys()): the keys in the dict's order. The model's
\* tables hold their keys in ascending order.
Keys(d) == AscendingSeq(DOMAIN d)

\* list(number_counts.values()), in the order of the keys.
Values(d) == [i \in 1..Len(Keys(d)) |-> d[Keys(d)[i]]]

RECURSIVE SumTo(_, _)
SumTo(w, i) == IF i = 0 THEN 0 ELSE SumTo(w, i - 1) + w[i]

\* itertools.accumulate(weights), as random.choices computes cum_weights.
Accumulate(w) == [i \in 1..Len(w) |-> SumTo(w, i)]

\* bisect.bisect_right(a, x, lo, hi), with Python's 0-based indices.
RECURSIVE Bisect(_, _, _, _)
Bisect(a, x, lo, hi) ==
    IF lo < hi
    THEN LET mid == (lo + hi) \div 2
         IN  IF x < a[mid + 1] THEN Bisect(a, x, lo, mid)
                               ELSE Bisect(a, x, mid + 1, hi)
    ELSE lo

\* What random.choices(population, weights=weights, k=k) raises:
\* cum_weights[-1] of an empty list is an IndexError, a total <= 0 a
\* ValueError.
ChoicesError(population, weights) ==
    IF Len(weights) = 0 THEN "IndexError"
    ELSE IF SumTo(weights, Len(weights)) <= 0 THEN "ValueError"
    ELSE "none"

\* ChoicesValues gone wrong: the weights are not passed, any key is drawn.
ChoicesValuesUnweighted(population, weights) == Range(population)

\* The values one draw of random.choices can return:
\* population[bisect(cum_weights, random() * total, 0, n - 1)]. random() is
\* in [0, 1) and the weights are integers, so bisect's result on
\* random() * total is its result on the integer part r, r in 0..total-1.
ChoicesValues(population, weights) ==
    LET cum_weights == Accumulate(weights)
        total == cum_weights[Len(cum_weights)]
        hi == Len(population) - 1
    IN  {population[Bisect(cum_weights, r, 0, hi) + 1] : r \in 0..(total - 1)}

\* Every list random.choices(population, weights=weights, k=k) can return.
Choices(population, weights, k) ==
    [1..k -> ChoicesValues(population, weights)]

\* FromKeys gone wrong: the repeats stay.
KeepRepeats(s) == s

\* list(dict.fromkeys(s)): s without its repeats, first occurrences kept in
\* order.
RECURSIVE FromKeys(_)
FromKeys(s) ==
    IF s = <<>> THEN <<>>
    ELSE LET front == FromKeys(SubSeq(s, 1, Len(s) - 1))
             last == s[Len(s)]
         IN  IF last \in Range(front) THEN front ELSE Append(front, last)

\* SliceTo gone wrong: s[len(s)-n:], the last n instead of the first.
SliceFromEnd(s, n) ==
    IF n >= 0
    THEN SubSeq(s, (IF n < Len(s) THEN Len(s) - n ELSE 0) + 1, Len(s))
    ELSE SubSeq(s, 1, IF Len(s) + n > 0 THEN Len(s) + n ELSE 0)

\* s[:n], Python's slice: a negative n counts from the end.
SliceTo(s, n) ==
    IF n >= 0
    THEN SubSeq(s, 1, IF n < Len(s) THEN n ELSE Len(s))
    ELSE SubSeq(s, 1, IF Len(s) + n > 0 THEN Len(s) + n ELSE 0)

RECURSIVE InsertSorted(_, _)
InsertSorted(x, s) ==
    IF s = <<>> THEN <<x>>
    ELSE IF x < s[1] THEN <<x>> \o s
    ELSE <<s[1]>> \o InsertSorted(x, Tail(s))

\* sorted(s), ascending.
RECURSIVE Sorted(_)
Sorted(s) ==
    IF s = <<>> THEN <<>>
    ELSE InsertSorted(s[Len(s)], Sorted(SubSeq(s, 1, Len(s) - 1)))

(***************************************************************************)
(* generate_weighted_combinations (lines 52-67).                           *)
(***************************************************************************)
\* Lines 62-66: the combinations list after one iteration's oversample.
WeightedEmit(combos, picks, n) ==
    LET unique_picks == FromKeys(picks)
    IN  IF Len(unique_picks) >= n
        THEN Append(combos, Sorted(SliceTo(unique_picks, n)))
        ELSE combos

(***************************************************************************)
(* generate_banker_combinations (lines 69-87).                             *)
(***************************************************************************)
\* Line 71.
LegsNeeded(n, bnk) == n - Len(bnk)

\* LegPopulation gone wrong: the bankers stay in the population.
LegPopulationWithBankers(d, bnk) == Keys(d)

\* Line 74: the keys that are not bankers.
LegPopulation(d, bnk) ==
    SelectSeq(Keys(d), LAMBDA num : num \notin Range(bnk))

\* Line 75.
LegWeights(d, bnk) ==
    [i \in 1..Len(LegPopulation(d, bnk)) |-> d[LegPopulation(d, bnk)[i]]]

\* Lines 80-85: the combinations list after one iteration's oversample.
BankerEmit(combos, picks, bnk, n) ==
    LET unique_legs == FromKeys(picks)
        legs_needed == LegsNeeded(n, bnk)
    IN  IF Len(unique_legs) >= legs_needed
        THEN Append(combos, Sorted(bnk \o SliceTo(unique_legs, legs_needed)))
        ELSE combos

(***************************************************************************)
(* One call of a generator, stepped.                                       *)
(***************************************************************************)
Numbers == 1..MaxNumber

\* The frequency tables: any set of keys, any counts, the empty table too.
Tables == UNION {[S -> 0..MaxCount] : S \in SUBSET Numbers}

\* The banker lists: up to MaxNumber numbers, no number twice (the callers
\* refuse a list with a repeat, lines 130 and 144, before they call).
BankerLists ==
    {b \in UNION {[1..n -> Numbers] : n \in 0..MaxNumber} :
        \A i, j \in DOMAIN b : b[i] = b[j] => i = j}

\* num_per_combo: from a negative size to one no table can fill.
Sizes == (-1)..(MaxNumber + 1)

NoSession == [has_combinations |-> FALSE, combinations |-> <<>>,
              has_last_action |-> FALSE,
              last_action |-> [mode |-> "none", size |-> 0, bankers |-> <<>>]]

NoCall == [fn |-> "none", bankers |-> <<>>, num_combinations |-> 0,
           num_per_combo |-> 0]

NoOutcome == [handler |-> "none", result |-> "none"]

Init ==
    /\ number_counts \in Tables
    /\ fn \in {"weighted", "banker"}
    /\ bankers \in (IF fn = "banker" THEN BankerLists ELSE {<<>>})
    /\ num_combinations \in 0..MaxBatch
    /\ num_per_combo \in Sizes
    /\ pc = "call"
    /\ iter = 0
    /\ potential_picks = <<>>
    /\ combinations = <<>>
    /\ exc = "none"
    /\ draws = 0
    /\ entered = FALSE
    /\ session = NoSession
    /\ last_call = NoCall
    /\ stored_by = NoCall
    /\ outcome = NoOutcome

\* Line 54: an empty table returns [] at once.
WeightedGuard ==
    /\ pc = "call"
    /\ fn = "weighted"
    /\ IF DOMAIN number_counts = {}
       THEN pc' = "returned" /\ entered' = FALSE
       ELSE pc' = "loop" /\ entered' = TRUE
    /\ UNCHANGED <<number_counts, fn, bankers, num_combinations, num_per_combo,
                   iter, potential_picks, combinations, exc, draws,
                   sessionVars>>

\* Line 61.
WeightedDraw ==
    /\ pc = "loop"
    /\ fn = "weighted"
    /\ iter < num_combinations
    /\ LET population == Keys(number_counts)
           weights == Values(number_counts)
       IN  IF ChoicesError(population, weights) # "none"
           THEN /\ pc' = "raised"
                /\ exc' = ChoicesError(population, weights)
                /\ UNCHANGED <<potential_picks, draws>>
           ELSE /\ \E picks \in Choices(population, weights, WeightedK) :
                       potential_picks' = picks
                /\ pc' = "picked"
                /\ draws' = draws + 1
                /\ exc' = exc
    /\ UNCHANGED <<number_counts, fn, bankers, num_combinations, num_per_combo,
                   iter, combinations, entered, sessionVars>>

\* Lines 62-66, and the loop's step to its next iteration.
WeightedPick ==
    /\ pc = "picked"
    /\ fn = "weighted"
    /\ combinations' = WeightedEmit(combinations, potential_picks, num_per_combo)
    /\ iter' = iter + 1
    /\ potential_picks' = <<>>
    /\ pc' = "loop"
    /\ UNCHANGED <<number_counts, fn, bankers, num_combinations, num_per_combo,
                   exc, draws, entered, sessionVars>>

\* Lines 71-72: no legs to fill returns [] at once.
BankerGuard ==
    /\ pc = "call"
    /\ fn = "banker"
    /\ IF LegsNeeded(num_per_combo, bankers) <= 0
       THEN pc' = "returned" /\ entered' = FALSE
       ELSE pc' = "loop" /\ entered' = TRUE
    /\ UNCHANGED <<number_counts, fn, bankers, num_combinations, num_per_combo,
                   iter, potential_picks, combinations, exc, draws,
                   sessionVars>>

\* Line 79.
BankerDraw ==
    /\ pc = "loop"
    /\ fn = "banker"
    /\ iter < num_combinations
    /\ LET leg_population == LegPopulation(number_counts, bankers)
           leg_weights == LegWeights(number_counts, bankers)
       IN  IF ChoicesError(leg_population, leg_weights) # "none"
           THEN /\ pc' = "raised"
                /\ exc' = ChoicesError(leg_population, leg_weights)
                /\ UNCHANGED <<potential_picks, draws>>
           ELSE /\ \E picks \in Choices(leg_population, leg_weights, BankerK) :
                       potential_picks' = picks
                /\ pc' = "picked"
                /\ draws' = draws + 1
                /\ exc' = exc
    /\ UNCHANGED <<number_counts, fn, bankers, num_combinations, num_per_combo,
                   iter, combinations, entered, sessionVars>>

\* Lines 80-85, and the loop's step to its next iteration.
BankerPick ==
    /\ pc = "picked"
    /\ fn = "banker"
    /\ combinations' = BankerEmit(combinations, potential_picks, bankers,
                                  num_per_combo)
    /\ iter' = iter + 1
    /\ potential_picks' = <<>>
    /\ pc' = "loop"
    /\ UNCHANGED <<number_counts, fn, bankers, num_combinations, num_per_combo,
                   exc, draws, entered, sessionVars>>

\* Lines 67 and 87: the loop is over, the list is returned.
Return ==
    /\ pc = "loop"
    /\ iter >= num_combinations
    /\ pc' = "returned"
    /\ UNCHANGED <<number_counts, fn, bankers, num_combinations, num_per_combo,
                   iter, potential_picks, combinations, exc, draws, entered,
                   sessionVars>>

Next ==
    \/ WeightedGuard
    \/ WeightedDraw
    \/ WeightedPick
    \/ BankerGuard
    \/ BankerDraw
    \/ BankerPick
    \/ Return

Spec == Init /\ [][Next]_vars

(***************************************************************************)
(* A whole call of a generator: every result it can end with.              *)
(***************************************************************************)
Returned(value) == [exc |-> "none", value |-> value]

Raised(e) == [exc |-> e, value |-> <<>>]

\* What one iteration of the weighted loop (lines 61-66) can append to
\* combinations: <<>> or one combination.
WeightedIterations(d, n) ==
    {WeightedEmit(<<>>, picks, n) :
        picks \in Choices(Keys(d), Values(d), WeightedK)}

\* What one iteration of the banker loop (lines 79-85) can append.
BankerIterations(d, bnk, n) ==
    {BankerEmit(<<>>, picks, bnk, n) :
        picks \in Choices(LegPopulation(d, bnk), LegWeights(d, bnk), BankerK)}

\* The lists k iterations can build, each iteration appending one of E.
RECURSIVE Batches(_, _)
Batches(E, k) ==
    IF k <= 0 THEN {<<>>}
    ELSE {b \o e : b \in Batches(E, k - 1), e \in E}

\* generate_weighted_combinations(d, k, n), lines 52-67.
GenerateWeighted(d, k, n) ==
    IF DOMAIN d = {} \/ k <= 0 THEN {Returned(<<>>)}
    ELSE IF ChoicesError(Keys(d), Values(d)) # "none"
    THEN {Raised(ChoicesError(Keys(d), Values(d)))}
    ELSE {Returned(b) : b \in Batches(WeightedIterations(d, n), k)}

\* generate_banker_combinations(d, bnk, k, n), lines 69-87.
GenerateBanker(d, bnk, k, n) ==
    IF LegsNeeded(n, bnk) <= 0 \/ k <= 0 THEN {Returned(<<>>)}
    ELSE IF ChoicesError(LegPopulation(d, bnk), LegWeights(d, bnk)) # "none"
    THEN {Raised(ChoicesError(LegPopulation(d, bnk), LegWeights(d, bnk)))}
    ELSE {Returned(b) : b \in Batches(BankerIterations(d, bnk, n), k)}

(***************************************************************************)
(* The session layer (lines 98-169).                                       *)
(***************************************************************************)
\* scrape_and_analyze_data returns Counter(all_numbers) of a non-empty list
\* (lines 39-43): no table is empty, no count is 0. The session's tables
\* hold each of their numbers once.
SessionTables == {[num \in S |-> 1] : S \in (SUBSET Numbers) \ {{}}}

\* banker_input.replace(',', ' ').split() (lines 127, 141) makes the text
\* its tokens; a token is the text of an integer (numeric, with its value) or
\* it is not.
\* The texts the user can type: up to one number more than the larger
\* limit, in non-descending order, and then possibly a word that is no number.
NumberTexts ==
    {t \in UNION {[1..n -> Numbers] : n \in 0..(LargeBankerMax + 1)} :
        \A i \in 1..(Len(t) - 1) : t[i] <= t[i + 1]}

BankerInputs ==
    LET numeric == {[i \in DOMAIN t |-> [numeric |-> TRUE, value |-> t[i]]] :
                       t \in NumberTexts}
    IN  numeric \cup {Append(t, [numeric |-> FALSE, value |-> 0]) : t \in numeric}

\* [int(n.strip()) for n in ...] (lines 127, 141): int() raises ValueError
\* on a token that is no integer.
ParseBankers(input) ==
    IF \E i \in DOMAIN input : ~input[i].numeric
    THEN [ok |-> FALSE, bankers |-> <<>>]
    ELSE [ok |-> TRUE, bankers |-> [i \in DOMAIN input |-> input[i].value]]

\* len(bankers) != len(set(bankers)) (lines 130, 144).
HasRepeat(bnk) == Len(bnk) # Cardinality(Range(bnk))

WeightedCall(size) ==
    [fn |-> "weighted", bankers |-> <<>>, num_combinations |-> SessionBatch,
     num_per_combo |-> size]

BankerCall(size, bnk) ==
    [fn |-> "banker", bankers |-> bnk, num_combinations |-> SessionBatch,
     num_per_combo |-> size]

\* ('weighted', size), lines 111 and 115.
WeightedAction(size) == [mode |-> "weighted", size |-> size, bankers |-> <<>>]

\* ('banker', size, bankers), lines 134 and 148.
BankerAction(size, bnk) == [mode |-> "banker", size |-> size, bankers |-> bnk]

\* RedrawCall gone wrong: the size of the first button, whatever was stored.
RedrawCallSmall(action) ==
    IF action.mode = "weighted"
    THEN WeightedCall(SmallCombo)
    ELSE BankerCall(SmallCombo, action.bankers)

\* Lines 165-168: the call Redraw makes for the stored last_action.
RedrawCall(action) ==
    IF action.mode = "weighted"
    THEN WeightedCall(action.size)
    ELSE BankerCall(action.size, action.bankers)

\* The results of a call, on the session's table.
CallResults(call) ==
    IF call.fn = "weighted"
    THEN GenerateWeighted(number_counts, call.num_combinations,
                          call.num_per_combo)
    ELSE GenerateBanker(number_counts, call.bankers, call.num_combinations,
                        call.num_per_combo)

\* st.session_state.combinations = ...; st.session_state.last_action = ...
Stored(value, action) ==
    [has_combinations |-> TRUE, combinations |-> value,
     has_last_action |-> TRUE, last_action |-> action]

SessionInit ==
    /\ number_counts \in SessionTables
    /\ fn = "none"
    /\ bankers = <<>>
    /\ num_combinations = 0
    /\ num_per_combo = 0
    /\ pc = "idle"
    /\ iter = 0
    /\ potential_picks = <<>>
    /\ combinations = <<>>
    /\ exc = "none"
    /\ draws = 0
    /\ entered = FALSE
    /\ session = NoSession
    /\ last_call = NoCall
    /\ stored_by = NoCall
    /\ outcome = NoOutcome

\* Lines 109-111 (size 6) and 113-115 (size 7). No try surrounds the call:
\* an exception ends the run before either assignment.
WeightedButton(size) ==
    /\ pc = "idle"
    /\ last_call' = WeightedCall(size)
    /\ \E r \in CallResults(WeightedCall(size)) :
          IF r.exc = "none"
          THEN /\ session' = Stored(r.value, WeightedAction(size))
               /\ stored_by' = WeightedCall(size)
               /\ outcome' = [handler |-> "weighted", result |-> "stored"]
          ELSE /\ UNCHANGED <<session, stored_by>>
               /\ outcome' = [handler |-> "weighted", result |-> r.exc]
    /\ UNCHANGED <<number_counts, coreVars>>

\* Lines 125-136 (size 6, at most 5 bankers) and 139-150 (size 7, at most 6).
\* except ValueError catches int()'s error and random.choices' alike; any
\* other exception ends the run.
BankerButton(size, limit) ==
    /\ pc = "idle"
    /\ \E banker_input \in BankerInputs :
          LET parsed == ParseBankers(banker_input)
              bnk == parsed.bankers
          IN  IF ~parsed.ok
              THEN /\ outcome' = [handler |-> "banker", result |-> "invalid"]
                   /\ last_call' = NoCall
                   /\ UNCHANGED <<session, stored_by>>
              ELSE IF ~(1 <= Len(bnk) /\ Len(bnk) <= limit)
              THEN /\ outcome' = [handler |-> "banker", result |-> "count"]
                   /\ last_call' = NoCall
                   /\ UNCHANGED <<session, stored_by>>
              ELSE IF HasRepeat(bnk)
              THEN /\ outcome' = [handler |-> "banker", result |-> "repeat"]
                   /\ last_call' = NoCall
                   /\ UNCHANGED <<session, stored_by>>
              ELSE /\ last_call' = BankerCall(size, bnk)
                   /\ \E r \in CallResults(BankerCall(size, bnk)) :
                         IF r.exc = "none"
                         THEN /\ session' = Stored(r.value,
                                                   BankerAction(size, bnk))
                              /\ stored_by' = BankerCall(size, bnk)
                              /\ outcome' = [handler |-> "banker",
                                             result |-> "stored"]
                         ELSE /\ UNCHANGED <<session, stored_by>>
                              /\ outcome' = [handler |-> "banker",
                                             result |-> r.exc]
    /\ UNCHANGED <<number_counts, coreVars>>

\* Lines 152 and 162-169: the button is on the page when combinations is
\* stored and not empty.
Redraw ==
    /\ pc = "idle"
    /\ session.has_combinations
    /\ session.combinations # <<>>
    /\ IF session.has_last_action
       THEN /\ last_call' = RedrawCall(session.last_action)
            /\ \E r \in CallResults(RedrawCall(session.last_action)) :
                  IF r.exc = "none"
                  THEN /\ session' = [session EXCEPT !.combinations = r.value]
                       /\ stored_by' = RedrawCall(session.last_action)
                       /\ outcome' = [handler |-> "redraw",
                                      result |-> "stored"]
                  ELSE /\ UNCHANGED <<session, stored_by>>
                       /\ outcome' = [handler |-> "redraw", result |-> r.exc]
       ELSE /\ outcome' = [handler |-> "redraw", result |-> "none"]
            /\ last_call' = NoCall
            /\ UNCHANGED <<session, stored_by>>
    /\ UNCHANGED <<number_counts, coreVars>>

SessionNext ==
    \/ WeightedButton(SmallCombo)
    \/ WeightedButton(LargeCombo)
    \/ BankerButton(SmallCombo, SmallBankerMax)
    \/ BankerButton(LargeCombo, LargeBankerMax)
    \/ Redraw

SessionSpec == SessionInit /\ [][SessionNext]_vars

(***************************************************************************)
(* Properties.                                                             *)
(***************************************************************************)
IsAscending(c) == \A i \in 1..(Len(c) - 1) : c[i] <= c[i + 1]

IsDistinct(c) == \A i, j \in DOMAIN c : c[i] = c[j] => i = j

Occurrences(c, v) == Cardinality({i \in DOMAIN c : c[i] = v})

Finished == pc \in {"returned", "raised"}

PositiveKeys(d) == {num \in DOMAIN d : d[num] > 0}

\* The stepped call and the whole call agree: what a stepped call ends with
\* is one of the results of GenerateWeighted / GenerateBanker.
SteppedAgreesWithWhole ==
    Finished =>
        LET r == IF pc = "returned" THEN Returned(combinations) ELSE Raised(exc)
        IN  IF fn = "weighted"
            THEN r \in GenerateWeighted(number_counts, num_combinations,
                                        num_per_combo)
            ELSE r \in GenerateBanker(number_counts, bankers,
                                      num_combinations, num_per_combo)

\* C1: on a non-empty table, with 1 <= num_per_combo <= the number of keys,
\* every combination generate_weighted_combinations holds, whatever the
\* draws were, has exactly num_per_combo elements, pairwise distinct, each a
\* key of the table, in ascending order.
WeightedCombinationsWellFormed ==
    (/\ fn = "weighted"
     /\ DOMAIN number_counts # {}
     /\ num_per_combo >= 1
     /\ num_per_combo <= Cardinality(DOMAIN number_counts))
    => \A i \in DOMAIN combinations :
          LET c == combinations[i]
          IN  /\ Len(c) = num_per_combo
              /\ IsDistinct(c)
              /\ Range(c) \subseteq DOMAIN number_counts
              /\ IsAscending(c)

\* C1's case: a weighted call has returned a full batch of two or more
\* combinations of two or more numbers, not all the same.
WeightedBatchReturned ==
    /\ fn = "weighted"
    /\ pc = "returned"
    /\ num_per_combo >= 2
    /\ num_per_combo <= Cardinality(DOMAIN number_counts)
    /\ num_combinations >= 2
    /\ Len(combinations) = num_combinations
    /\ combinations[1] # combinations[2]

\* The banker mode's preconditions: pairwise distinct keys of the table,
\* between 1 and num_per_combo - 1 of them.
BankerPreconditions ==
    /\ fn = "banker"
    /\ IsDistinct(bankers)
    /\ Range(bankers) \subseteq DOMAIN number_counts
    /\ 1 <= Len(bankers)
    /\ Len(bankers) <= num_per_combo - 1

\* C2: under the banker mode's preconditions every combination
\* generate_banker_combinations holds contains every banker and exactly
\* legs_needed further pairwise distinct numbers, each a key of the table
\* that is no banker; it has num_per_combo elements and is ascending.
BankerCombinationsWellFormed ==
    BankerPreconditions
    => \A i \in DOMAIN combinations :
          LET c == combinations[i]
              legs == Range(c) \ Range(bankers)
          IN  /\ Range(bankers) \subseteq Range(c)
              /\ Len(c) = num_per_combo
              /\ IsDistinct(c)
              /\ Cardinality(legs) = num_per_combo - Len(bankers)
              /\ legs \subseteq (DOMAIN number_counts \ Range(bankers))
              /\ IsAscending(c)

\* C2's case: a banker call under its preconditions has returned a
\* combination whose smallest number is a leg, not a banker.
BankerBatchReturned ==
    /\ BankerPreconditions
    /\ pc = "returned"
    /\ Len(combinations) >= 1
    /\ Len(combinations[1]) >= 2
    /\ combinations[1][1] \notin Range(bankers)

\* C3: a weighted call for one or more combinations (5 in the claim) on a
\* non-empty table with fewer than num_per_combo keys of a count above 0
\* returns fewer combinations than asked for and does not raise.
ShortBatchNeverRaises ==
    (/\ fn = "weighted"
     /\ DOMAIN number_counts # {}
     /\ num_combinations >= 1
     /\ Cardinality(PositiveKeys(number_counts)) < num_per_combo
     /\ Finished)
    => /\ pc = "returned"
       /\ Len(combinations) < num_combinations

\* C4: on an empty table both generators (the banker one with
\* legs_needed >= 1) return [] and do not raise.
EmptyTableReturnsEmpty ==
    (/\ DOMAIN number_counts = {}
     /\ fn = "banker" => LegsNeeded(num_per_combo, bankers) >= 1
     /\ Finished)
    => /\ pc = "returned"
       /\ combinations = <<>>

\* C5: a weighted call with num_per_combo <= 0, on a non-empty table and for
\* one or more combinations, emits no combination at all: what it returns is
\* []. (That no call raises is C3's and C9's matter.)
NonPositiveSizeReturnsEmpty ==
    (/\ fn = "weighted"
     /\ DOMAIN number_counts # {}
     /\ num_combinations >= 1
     /\ num_per_combo <= 0)
    => combinations = <<>>

\* The numbers a draw of the running call can return.
Drawable ==
    IF fn = "weighted"
    THEN ChoicesValues(Keys(number_counts), Values(number_counts))
    ELSE ChoicesValues(LegPopulation(number_counts, bankers),
                       LegWeights(number_counts, bankers))

\* C6 as claimed: where the table holds a key of count 0 beside keys of a
\* positive count, the key of count 0 is eligible: a draw of the call can
\* return it, so that a combination can include it (in the banker mode, when
\* it is no banker and some leg has a positive count).
ZeroCountKeyEligible ==
    \A z \in DOMAIN number_counts :
        (/\ entered
         /\ number_counts[z] = 0
         /\ z \notin Range(bankers)
         /\ PositiveKeys(number_counts) \ Range(bankers) # {})
        => z \in Drawable

\* C6, amended: a key of count 0 is never drawn: no combination of either
\* generator includes a key of count 0, unless that key is a banker.
ZeroCountKeyNeverDrawn ==
    \A i \in DOMAIN combinations :
        \A v \in Range(combinations[i]) \cap DOMAIN number_counts :
            v \in Range(bankers) \/ number_counts[v] > 0

\* C6's case: a call on a table with a key of count 0 that is no banker,
\* beside two or more keys of a positive count, has returned combinations
\* of two or more numbers.
ZeroCountKeyLeftOut ==
    /\ pc = "returned"
    /\ \E z \in DOMAIN number_counts :
          number_counts[z] = 0 /\ z \notin Range(bankers)
    /\ Cardinality(PositiveKeys(number_counts) \ Range(bankers)) >= 2
    /\ combinations # <<>>
    /\ Len(combinations[1]) >= 2

\* The first n distinct values of an oversample, by first occurrence.
FirstOccurrences(p) == {i \in DOMAIN p : \A j \in 1..(i - 1) : p[j] # p[i]}

FirstDistinct(p, n) ==
    {p[i] : i \in {k \in FirstOccurrences(p) :
                      Cardinality({j \in FirstOccurrences(p) : j <= k}) <= n}}

\* C8: for each draw, with n = num_per_combo (weighted, n >= 0) or
\* legs_needed (banker): if the oversample holds at least n distinct values,
\* exactly one combination is appended, the ascending arrangement of the
\* first n distinct values by first occurrence (in the banker mode together
\* with the bankers); otherwise nothing is appended.
EmitsFirstDistinctSorted ==
    [][(pc = "picked" /\ num_per_combo - Len(bankers) >= 0) =>
         LET n == num_per_combo - Len(bankers)
             chosen == FirstDistinct(potential_picks, n)
         IN  IF Cardinality(Range(potential_picks)) >= n
             THEN /\ Len(combinations') = Len(combinations) + 1
                  /\ SubSeq(combinations', 1, Len(combinations)) = combinations
                  /\ LET c == combinations'[Len(combinations')]
                     IN  /\ IsAscending(c)
                         /\ \A v \in Numbers :
                               Occurrences(c, v) =
                                   (IF v \in chosen THEN 1 ELSE 0)
                                       + Occurrences(bankers, v)
             ELSE combinations' = combinations]_vars

\* C8's case: an earlier draw of the call has emitted, and the oversample
\* now drawn has a repeat, more distinct values than the n >= 1 needed, and
\* does not start with its smallest value.
OversampleWithRepeatDrawn ==
    /\ pc = "picked"
    /\ iter >= 1
    /\ combinations # <<>>
    /\ num_per_combo - Len(bankers) >= 1
    /\ Cardinality(Range(potential_picks)) > num_per_combo - Len(bankers)
    /\ Cardinality(Range(potential_picks)) < Len(potential_picks)
    /\ \E i \in DOMAIN potential_picks : potential_picks[i] < potential_picks[1]

\* C9: a call that passed its initial guard ends by returning, after
\* exactly num_combinations draws, a list of at most num_combinations
\* combinations.
NoRetryBoundedWork ==
    entered =>
        /\ draws <= num_combinations
        /\ Len(combinations) <= draws
        /\ Finished => (pc = "returned" /\ draws = num_combinations)

\* C7: every call of generate_banker_combinations the session layer makes
\* passes bankers that are pairwise distinct, each a key of the table, and
\* between 1 and num_per_combo - 1 in number.
SessionBankerCallsValid ==
    last_call.fn = "banker" =>
        /\ IsDistinct(last_call.bankers)
        /\ Range(last_call.bankers) \subseteq DOMAIN number_counts
        /\ 1 <= Len(last_call.bankers)
        /\ Len(last_call.bankers) <= last_call.num_per_combo - 1

\* last_action as the arguments of a call: its mode, size and bankers.
ConfigOf(call) ==
    [mode |-> call.fn, size |-> call.num_per_combo, bankers |-> call.bankers]

Rejections == {"invalid", "count", "repeat"}

\* C10: whenever the session holds combinations, last_action is the mode,
\* size and banker list of the call that produced them; Redraw calls the
\* generator of last_action's mode with its size and bankers and for 5
\* (SessionBatch) combinations; and a banker request that validation rejects
\* changes neither combinations nor last_action.
RedrawConsistent ==
    /\ [](session.has_combinations =>
            /\ session.has_last_action
            /\ session.last_action = ConfigOf(stored_by))
    /\ [][outcome'.handler = "redraw" =>
            /\ last_call'.fn = session.last_action.mode
            /\ last_call'.num_per_combo = session.last_action.size
            /\ last_call'.bankers = session.last_action.bankers
            /\ last_call'.num_combinations = SessionBatch]_vars
    /\ [][(outcome'.handler = "banker" /\ outcome'.result \in Rejections) =>
            session' = session]_vars

\* C10's case: Redraw has replaced the combinations a banker request of the
\* larger size stored.
BankerRedrawn ==
    /\ outcome = [handler |-> "redraw", result |-> "stored"]
    /\ session.last_action.mode = "banker"
    /\ session.last_action.size = LargeCombo
    /\ session.combinations # <<>>

=============================================================================
